---- MODULE Spec2Model ----
(***************************************************************************)
(* Model of the rw-ws-score WebSocket relay.                               *)
(*                                                                         *)
(*   server : api/server.config.js      (src/unnamed/part_002)             *)
(*   client : WsContext.tsx             (src/web/src/components/WsContext) *)
(*   page   : HomePage                  (src/unnamed/part_000)             *)
(*                                                                         *)
(* A JavaScript object used as a dictionary is modelled as the sequence of *)
(* its own properties in insertion order, each a record [k, v]; this is    *)
(* the order Object.values walks for non-index string keys.                *)
(***************************************************************************)
EXTENDS Integers, Sequences, FiniteSets, TLC

\* ------------------------------------------------------------------ bounds
\* Number of client-side events in one run: texts sent to the server, calls
\* of setScore that send nothing, and undecodable texts received.
MaxMsgs == 2

\* ------------------------------------------------------------ value domains
Conns == {"c1", "c2"}
Ids == {"Alice", "Bob"}
Scores == {"5", "7"}

\* The JavaScript value undefined; used as a property key it is coerced to
\* the string "undefined".
Undefined == "undefined"
\* A field that does not occur in a JSON text.
Absent == "absent"

\* Raw client-to-server texts.
NotJson == [kind |-> "text", playerId |-> Absent, score |-> Absent]
JsonNull == [kind |-> "null", playerId |-> Absent, score |-> Absent]
JsonPrim == [kind |-> "prim", playerId |-> Absent, score |-> Absent]
JsonObj(id, score) == [kind |-> "obj", playerId |-> id, score |-> score]

NoIdMsg == JsonObj(Absent, "5")
NoScoreMsg == JsonObj("Alice", Absent)

ValidMsgs == {JsonObj(id, s) : id \in Ids, s \in Scores}
MalformedMsgs == {NotJson, JsonNull, JsonPrim, NoIdMsg, NoScoreMsg}
RawMsgs == ValidMsgs \cup MalformedMsgs

\* A server-to-client text that is not JSON.
Garbage == [kind |-> "text", entries |-> <<>>]

\* ------------------------------------------------- JavaScript object helpers
RECURSIVE ObjIndex(_, _, _)
\* Position of the own property key in obj at or after position i; 0 if none.
ObjIndex(obj, key, i) ==
  IF i > Len(obj) THEN 0
  ELSE IF obj[i].k = key THEN i
  ELSE ObjIndex(obj, key, i + 1)

ObjHas(obj, key) == ObjIndex(obj, key, 1) # 0

\* obj[key]
ObjGet(obj, key) ==
  IF ObjHas(obj, key) THEN obj[ObjIndex(obj, key, 1)].v ELSE Undefined

\* Variant: an existing property is left as it is (first writer wins).
ObjSetKeepFirst(obj, key, val) ==
  IF ObjHas(obj, key) THEN obj ELSE Append(obj, [k |-> key, v |-> val])

\* Variant: every assignment adds a property, also for a key that exists.
ObjSetAppend(obj, key, val) == Append(obj, [k |-> key, v |-> val])

\* Variant: assigning undefined creates no property.
ObjSetSkipUndefined(obj, key, val) ==
  IF val = Undefined THEN obj
  ELSE IF ObjHas(obj, key)
       THEN [obj EXCEPT ![ObjIndex(obj, key, 1)] = [k |-> key, v |-> val]]
       ELSE Append(obj, [k |-> key, v |-> val])

\* obj[key] = val : an existing property keeps its position and gets the new
\* value; a new property is added last.
ObjSet(obj, key, val) ==
  IF ObjHas(obj, key)
  THEN [obj EXCEPT ![ObjIndex(obj, key, 1)] = [k |-> key, v |-> val]]
  ELSE Append(obj, [k |-> key, v |-> val])

RECURSIVE DistinctFrom(_, _)
\* The elements of seq from position i on that occur at no earlier position.
DistinctFrom(seq, i) ==
  IF i > Len(seq) THEN <<>>
  ELSE (IF \E j \in 1..(i - 1) : seq[j] = seq[i] THEN <<>> ELSE <<seq[i]>>)
         \o DistinctFrom(seq, i + 1)

\* Variant: each value once, however many keys hold it.
ObjValuesDistinct(obj) ==
  DistinctFrom([i \in 1..Len(obj) |-> obj[i].v], 1)

\* Object.values(obj)
ObjValues(obj) == [i \in 1..Len(obj) |-> obj[i].v]

ObjKeys(obj) == {obj[i].k : i \in 1..Len(obj)}

\* ------------------------------------------------------------------- state
VARIABLES
  wsConnections,  \* server: identifier -> connection           (part_002:25)
  players,        \* server: identifier -> score                (part_002:26)
  srvSocket,      \* server end of each connection: none / open / closed
  readyState,     \* client end: None / Connecting / Open / Closed
  inbox,          \* texts in flight, client to server, per connection
  outbox,         \* texts in flight, server to client, per connection
  cache,          \* client: the players state of WsContextProvider
  log,            \* history: messages the server handler has been run on
  last,           \* history: what the latest run of the server handler did
  lost,           \* history: number of client-side calls that sent nothing
                  \*   to the server and replaced no cache
  ev              \* history: how the latest of those calls ended, one of
                  \*   setScore:  noop / threw / dropped
                  \*   onmessage: parseError

vars == <<wsConnections, players, srvSocket, readyState, inbox, outbox,
          cache, log, last, lost, ev>>

\* ------------------------------------------------------------ JSON helpers
\* Variant: a parser that accepts any text, yielding a value without
\* properties for text that is not JSON.
JSONparseLenient(message) == [threw |-> FALSE, val |-> message]

\* JSON.parse on a client-to-server text: throws on text that is not JSON.
JSONparse(message) == [threw |-> message.kind = "text", val |-> message]

\* player.<name> : reading a property of null throws a TypeError; a
\* primitive, or an object without the property, yields undefined.
GetThrows(val) == val.kind = "null"
GetField(val, name) ==
  IF val.kind = "obj" /\ val[name] # Absent THEN val[name] ELSE Undefined

\* JSON.stringify(obj): properties whose value is undefined are left out.
JSONstringify(obj) ==
  [kind |-> "json", entries |-> SelectSeq(obj, LAMBDA e : e.v # Undefined)]

\* JSON.stringify({ playerId, score }) in setScore.
StringifyUpdate(playerId, score) == JsonObj(playerId, score)

\* JSON.parse on a server-to-client text.
ClientParse(data) == [threw |-> data.kind # "json", val |-> data.entries]

\* --------------------------------------------------------------- the server
\* Variant: the snapshot is serialized before the score is stored.
TryBodyStale(message, connection) ==
  LET parsed == JSONparse(message)
      thrown == parsed.threw \/ GetThrows(parsed.val)
      id == GetField(parsed.val, "playerId")
      reg == ObjSet(wsConnections, id, connection)
      store == ObjSet(players, id, GetField(parsed.val, "score"))
  IN IF thrown
     THEN [thrown |-> TRUE, reg |-> wsConnections, store |-> players,
           targets |-> <<>>, data |-> JSONstringify(players)]
     ELSE [thrown |-> FALSE, reg |-> reg, store |-> store,
           targets |-> ObjValues(reg), data |-> JSONstringify(players)]

\* The statements of the try block before the fan-out (lines 52-54) and the
\* arguments of the fan-out (lines 56-57).
TryBody(message, connection) ==
  LET parsed == JSONparse(message)
      thrown == parsed.threw \/ GetThrows(parsed.val)
      id == GetField(parsed.val, "playerId")
      reg == ObjSet(wsConnections, id, connection)
      store == ObjSet(players, id, GetField(parsed.val, "score"))
  IN IF thrown
     THEN [thrown |-> TRUE, reg |-> wsConnections, store |-> players,
           targets |-> <<>>, data |-> JSONstringify(players)]
     ELSE [thrown |-> FALSE, reg |-> reg, store |-> store,
           targets |-> ObjValues(reg), data |-> JSONstringify(store)]

\* Variant: a text is dropped when the socket still has one queued.
SendIfIdle(ob, target, data) ==
  IF srvSocket[target] = "open" /\ readyState[target] = "Open"
     /\ ob[target] = <<>>
  THEN [ob EXCEPT ![target] = Append(@, data)]
  ELSE ob

\* Variant: the text overtakes the texts already queued on the socket.
SendFront(ob, target, data) ==
  IF srvSocket[target] = "open" /\ readyState[target] = "Open"
  THEN [ob EXCEPT ![target] = <<data>> \o @]
  ELSE ob

\* wsConnection.socket.send(data) that does not throw: the text is written
\* to an open socket and discarded for a closed one. A text written to a
\* socket whose client end has gone is lost on the way.
Send(ob, target, data) ==
  IF srvSocket[target] = "open" /\ readyState[target] = "Open"
  THEN [ob EXCEPT ![target] = Append(@, data)]
  ELSE ob

RECURSIVE ForEachSend(_, _, _, _, _)
\* Object.values(wsConnections).forEach(send), of which the first k sends
\* return; a send that throws ends the loop.
ForEachSend(ob, targets, i, k, data) ==
  IF i > k THEN ob
  ELSE ForEachSend(Send(ob, targets[i], data), targets, i + 1, k, data)

\* Variant: the exception leaves the handler.
HandlerOutcomeRethrow(thrown) == IF thrown THEN "unhandled" ELSE "ok"

\* try { ... } catch (e) { console.error(...) } : whatever the try block
\* throws is caught and logged, and the handler returns.
HandlerOutcome(thrown) == IF thrown THEN "caught" ELSE "ok"

Count(seq, x) == Cardinality({i \in 1..Len(seq) : seq[i] = x})

NoRun ==
  [conn |-> "none", message |-> NotJson, outcome |-> "none",
   targets |-> <<>>, attempted |-> 0, data |-> JSONstringify(<<>>),
   recv |-> [c \in Conns |-> 0], closedTargets |-> {}]

\* connection.socket.on('message', ...)
OnMessage(connection) ==
  /\ srvSocket[connection] = "open"
  /\ inbox[connection] # <<>>
  /\ LET message == Head(inbox[connection])
         body == TryBody(message, connection)
         n == Len(body.targets)
     IN /\ inbox' = [inbox EXCEPT ![connection] = Tail(@)]
        /\ log' = Append(log, [conn |-> connection, message |-> message])
        /\ wsConnections' = body.reg
        /\ players' = body.store
        /\ \E k \in 0..n :
             \* a send throws only on a socket that is no longer open
             /\ k < n => srvSocket[body.targets[k + 1]] = "closed"
             /\ outbox' = ForEachSend(outbox, body.targets, 1, k, body.data)
             /\ last' =
                  [conn |-> connection, message |-> message,
                   outcome |-> HandlerOutcome(body.thrown \/ k < n),
                   targets |-> body.targets,
                   attempted |-> IF k < n THEN k + 1 ELSE n,
                   data |-> body.data,
                   recv |-> [c \in Conns |->
                               IF srvSocket[c] = "open"
                               THEN Count(SubSeq(body.targets, 1, k), c)
                               ELSE 0],
                   closedTargets |->
                     {body.targets[i] : i \in
                        {j \in 1..n : srvSocket[body.targets[j]] = "closed"}}]
  /\ UNCHANGED <<srvSocket, readyState, cache, lost, ev>>

\* Variant: the close handler removes the connection's registry entries.
OnCloseUnregister(connection) ==
  /\ srvSocket[connection] = "open"
  /\ readyState[connection] = "Closed"
  /\ inbox[connection] = <<>>
  /\ srvSocket' = [srvSocket EXCEPT ![connection] = "closed"]
  /\ wsConnections' = SelectSeq(wsConnections, LAMBDA e : e.v # connection)
  /\ UNCHANGED <<players, readyState, inbox, outbox, cache, log, last, lost,
                 ev>>

\* connection.socket.on('close', ...) : only logs.
OnClose(connection) ==
  /\ srvSocket[connection] = "open"
  /\ readyState[connection] = "Closed"
  /\ inbox[connection] = <<>>
  /\ srvSocket' = [srvSocket EXCEPT ![connection] = "closed"]
  /\ UNCHANGED <<wsConnections, players, readyState, inbox, outbox, cache,
                 log, last, lost, ev>>

\* --------------------------------------------------------------- the client
\* Client-side events so far: texts sent (handled or in flight) and calls
\* that sent nothing.
Events == Len(log) + Len(inbox["c1"]) + Len(inbox["c2"]) + lost

\* Variant: the effect runs again after the socket has closed.
MountReconnect(c) ==
  /\ readyState[c] \in {"None", "Closed"}
  /\ readyState' = [readyState EXCEPT ![c] = "Connecting"]
  /\ UNCHANGED <<wsConnections, players, srvSocket, inbox, outbox, cache,
                 log, last, lost, ev>>

\* useEffect: new WebSocket(url); ws.current = socket
Mount(c) ==
  /\ readyState[c] = "None"
  /\ readyState' = [readyState EXCEPT ![c] = "Connecting"]
  /\ UNCHANGED <<wsConnections, players, srvSocket, inbox, outbox, cache,
                 log, last, lost, ev>>

\* The handshake completes: the server runs the /ws route handler for the
\* new connection and the client's onopen fires.
Accept(c) ==
  /\ readyState[c] = "Connecting"
  /\ readyState' = [readyState EXCEPT ![c] = "Open"]
  /\ srvSocket' = [srvSocket EXCEPT ![c] = "open"]
  /\ UNCHANGED <<wsConnections, players, inbox, outbox, cache, log, last,
                 lost, ev>>

\* The effect's cleanup: socket.close()
Unmount(c) ==
  /\ readyState[c] \in {"Connecting", "Open"}
  /\ readyState' = [readyState EXCEPT ![c] = "Closed"]
  /\ outbox' = [outbox EXCEPT ![c] = <<>>]
  /\ UNCHANGED <<wsConnections, players, srvSocket, inbox, cache, log, last,
                 lost, ev>>

\* The connection fails or the peer goes away: onerror / onclose only log.
SocketError(c) ==
  /\ readyState[c] \in {"Connecting", "Open"}
  /\ readyState' = [readyState EXCEPT ![c] = "Closed"]
  /\ outbox' = [outbox EXCEPT ![c] = <<>>]
  /\ UNCHANGED <<wsConnections, players, srvSocket, inbox, cache, log, last,
                 lost, ev>>

\* What ws.current?.send(text) does in each state of the socket: nothing
\* without a socket, an InvalidStateError while connecting, a queued text
\* while open, a silently discarded text once closing or closed.
SendResult(state) ==
  CASE state = "None" -> "noop"
    [] state = "Connecting" -> "threw"
    [] state = "Open" -> "sent"
    [] OTHER -> "dropped"

\* setScore(playerId, score), as called by HomePage's onChange.
setScore(c, playerId, score) ==
  /\ Events < MaxMsgs
  /\ IF SendResult(readyState[c]) = "sent"
     THEN /\ inbox' = [inbox EXCEPT ![c] =
                         Append(@, StringifyUpdate(playerId, score))]
          /\ UNCHANGED <<lost, ev>>
     ELSE /\ lost' = lost + 1
          /\ ev' = SendResult(readyState[c])
          /\ UNCHANGED inbox
  /\ UNCHANGED <<wsConnections, players, srvSocket, readyState, outbox,
                 cache, log, last>>

\* Any other WebSocket client (README: wscat) writes a text of its own.
RawSend(c, message) ==
  /\ Events < MaxMsgs
  /\ readyState[c] = "Open"
  /\ inbox' = [inbox EXCEPT ![c] = Append(@, message)]
  /\ UNCHANGED <<wsConnections, players, srvSocket, readyState, outbox,
                 cache, log, last, lost, ev>>

RECURSIVE ObjAssign(_, _, _)
\* Object.assign(obj, src), from the i-th property of src on.
ObjAssign(obj, src, i) ==
  IF i > Len(src) THEN obj
  ELSE ObjAssign(ObjSet(obj, src[i].k, src[i].v), src, i + 1)

\* Variant: the snapshot is merged into the previous state.
setPlayersMerge(old, new) == ObjAssign(old, new, 1)

\* setPlayers(players): the state is replaced by its argument.
setPlayers(old, new) == new

\* socket.onmessage
OnSocketMessage(c, data) ==
  LET parsed == ClientParse(data)
  IN IF parsed.threw
     THEN /\ lost' = lost + 1
          /\ ev' = "parseError"
          /\ UNCHANGED cache
     ELSE /\ cache' = [cache EXCEPT ![c] = setPlayers(@, parsed.val)]
          /\ UNCHANGED <<lost, ev>>

\* The next text of the server reaches an open client socket.
ClientReceive(c) ==
  /\ readyState[c] = "Open"
  /\ outbox[c] # <<>>
  /\ OnSocketMessage(c, Head(outbox[c]))
  /\ outbox' = [outbox EXCEPT ![c] = Tail(@)]
  /\ UNCHANGED <<wsConnections, players, srvSocket, readyState, inbox, log,
                 last>>

\* A text that is not JSON reaches an open client socket.
ClientReceiveGarbage(c) ==
  /\ Events < MaxMsgs
  /\ readyState[c] = "Open"
  /\ OnSocketMessage(c, Garbage)
  /\ UNCHANGED <<wsConnections, players, srvSocket, readyState, inbox,
                 outbox, log, last>>

\* ------------------------------------------------------------ specification
Init ==
  /\ wsConnections = <<>>
  /\ players = <<>>
  /\ srvSocket = [c \in Conns |-> "none"]
  /\ readyState = [c \in Conns |-> "None"]
  /\ inbox = [c \in Conns |-> <<>>]
  /\ outbox = [c \in Conns |-> <<>>]
  /\ cache = [c \in Conns |-> <<>>]
  /\ log = <<>>
  /\ last = NoRun
  /\ lost = 0
  /\ ev = "none"

Next ==
  \/ \E c \in Conns : Mount(c)
  \/ \E c \in Conns : Accept(c)
  \/ \E c \in Conns : Unmount(c)
  \/ \E c \in Conns : SocketError(c)
  \/ \E c \in Conns, id \in Ids, s \in Scores : setScore(c, id, s)
  \/ \E c \in Conns, m \in MalformedMsgs : RawSend(c, m)
  \/ \E c \in Conns : OnMessage(c)
  \/ \E c \in Conns : OnClose(c)
  \/ \E c \in Conns : ClientReceive(c)
  \/ \E c \in Conns : ClientReceiveGarbage(c)

Spec == Init /\ [][Next]_vars

\* The event loop runs the handler of every message that has arrived, and
\* the transport hands every text it carries to the open socket it is for.
Fairness ==
  /\ \A c \in Conns : WF_vars(OnMessage(c))
  /\ \A c \in Conns : WF_vars(ClientReceive(c))

SpecFair == Spec /\ Fairness

\* ------------------------------------------------------------------ claims
\* Whether the handler gets as far as the two assignments on this text.
Registers(message) ==
  ~JSONparse(message).threw /\ ~GetThrows(JSONparse(message).val)
\* The identifier and the score the handler reads from a text.
KeyOf(message) == GetField(JSONparse(message).val, "playerId")
ScoreOf(message) == GetField(JSONparse(message).val, "score")

\* The step is a run of the server's message handler.
HandlerStep == Len(log') = Len(log) + 1

AllValid == \A i \in 1..Len(log) : log[i].message \in ValidMsgs
\* The position in log of the last message bearing the identifier.
LastIdx(id) ==
  CHOOSE i \in 1..Len(log) :
    /\ log[i].message.playerId = id
    /\ \A j \in (i + 1)..Len(log) : log[j].message.playerId # id

\* C1: after any sequence of valid updates, from whichever connections,
\* players holds exactly the identifiers that occurred, each with the score
\* of the last message that bore it.
C1_LastWriterWins ==
  AllValid =>
    /\ ObjKeys(players) = {log[i].message.playerId : i \in 1..Len(log)}
    /\ \A id \in ObjKeys(players) :
         ObjGet(players, id) = log[LastIdx(id)].message.score

C1_Witness ==
  /\ AllValid
  /\ Len(log) >= 2
  /\ log[1].conn # log[2].conn
  /\ log[1].message.playerId = log[2].message.playerId
  /\ log[1].message.score # log[2].message.score
  /\ ObjGet(players, log[2].message.playerId) = log[2].message.score

\* An object holds at most one property per key.
SingleValued(obj) ==
  \A i, j \in 1..Len(obj) : obj[i].k = obj[j].k => i = j

\* C7: an identifier has at most one handle in wsConnections and at most
\* one score in players, and after a connection has registered an
\* identifier the registry holds that connection, and only it, for the
\* identifier.
C7_OneHandleOneScore ==
  /\ SingleValued(wsConnections)
  /\ SingleValued(players)
  /\ (last.conn # "none" /\ Registers(last.message)) =>
       {wsConnections[i].v :
          i \in {j \in 1..Len(wsConnections) :
                   wsConnections[j].k = KeyOf(last.message)}} = {last.conn}

\* The same identifier registered by two connections in turn.
C7_Witness ==
  /\ Len(log) = 2
  /\ Registers(log[1].message)
  /\ Registers(log[2].message)
  /\ log[1].conn # log[2].conn
  /\ KeyOf(log[1].message) = KeyOf(log[2].message)
  /\ ObjGet(wsConnections, KeyOf(log[2].message)) = log[2].conn

\* The handles registered in wsConnections.
Handles == {wsConnections[i].v : i \in 1..Len(wsConnections)}

\* C2: after a valid update every registered handle (the sender's too) has
\* been sent exactly one snapshot, equal to players right after the
\* update, also when one connection is registered under several
\* identifiers. (Stated for the handles whose socket is open.)
C2_ExactlyOneSnapshot ==
  (last.conn # "none" /\ last.message \in ValidMsgs) =>
    /\ last.data = JSONstringify(players)
    /\ \A h \in Handles : srvSocket[h] = "open" => last.recv[h] = 1

\* C3: after a valid update every client whose connection is open at that
\* moment is sent the snapshot, whether or not it has sent an update itself.
C3_BroadcastToAllConnected ==
  [][(HandlerStep /\ last'.message \in ValidMsgs) =>
       \A c \in Conns :
         (srvSocket[c] = "open" /\ readyState[c] = "Open") =>
           last'.recv[c] >= 1]_vars

\* C4: a text that does not parse changes neither players nor
\* wsConnections, causes no send and does not close the connection; a
\* valid message that follows it on the same connection is processed as
\* usual: registered, stored, and its snapshot fanned out.
C4_UnparseableIsDropped ==
  [][HandlerStep =>
       /\ last'.message.kind = "text" =>
            /\ UNCHANGED <<wsConnections, players, outbox>>
            /\ UNCHANGED <<srvSocket, readyState>>
            /\ last'.attempted = 0
       /\ (/\ last.conn = last'.conn
           /\ last.message.kind = "text"
           /\ last'.message \in ValidMsgs) =>
            /\ ObjGet(wsConnections', KeyOf(last'.message)) = last'.conn
            /\ ObjGet(players', KeyOf(last'.message)) = ScoreOf(last'.message)
            /\ last'.data = JSONstringify(players')
            /\ last'.targets = ObjValues(wsConnections')
            /\ last'.attempted >= 1]_vars

\* An unparseable text has been dropped and the next, valid, message of the
\* same connection has been stored.
C4_Witness ==
  /\ Len(log) = 2
  /\ log[1].message = NotJson
  /\ log[2].message \in ValidMsgs
  /\ log[1].conn = log[2].conn
  /\ srvSocket[log[2].conn] = "open"
  /\ ObjGet(players, KeyOf(log[2].message)) = ScoreOf(log[2].message)
  /\ last.recv[log[2].conn] >= 1

\* A text that parses but lacks a required field, or is no object.
LacksField(message) ==
  /\ ~JSONparse(message).threw
  /\ \/ message.kind # "obj"
     \/ message.playerId = Absent
     \/ message.score = Absent

\* C5: a message that parses but lacks playerId or score, or is no object,
\* is dropped: no change to wsConnections or players, no send.
C5_MissingFieldIsDropped ==
  [][(HandlerStep /\ LacksField(last'.message)) =>
       /\ UNCHANGED <<wsConnections, players, outbox>>
       /\ last'.attempted = 0]_vars

\* C6: a send that fails for one handle does not keep the snapshot from any
\* other registered handle: every target of the fan-out is attempted.
C6_FanOutIsolatesFailures ==
  (last.conn # "none" /\ Registers(last.message)) =>
    last.attempted = Len(last.targets)

\* The step is the server's close event of some connection.
CloseStep ==
  \E c \in Conns : srvSocket[c] = "open" /\ srvSocket'[c] = "closed"

Range(seq) == {seq[i] : i \in 1..Len(seq)}

\* C8: a close event changes neither wsConnections nor players; a closed
\* connection that is registered stays a target of the fan-out, and the
\* snapshot keeps carrying every score in players.
C8_CloseLeavesStores ==
  [][/\ CloseStep => UNCHANGED <<wsConnections, players>>
     /\ (HandlerStep /\ Registers(last'.message)) =>
          /\ \A i \in 1..Len(wsConnections') :
               wsConnections'[i].v \in Range(last'.targets)
          /\ \A i \in 1..Len(players') :
               players'[i].v # Undefined =>
                 players'[i] \in Range(last'.data.entries)]_vars

\* A connection registered an identifier and closed; a later fan-out has
\* it among its targets and its score in the snapshot.
C8_Witness ==
  /\ Len(log) = 2
  /\ log[1].message \in ValidMsgs
  /\ srvSocket[log[1].conn] = "closed"
  /\ log[1].conn \in Handles
  /\ log[1].conn \in last.closedTargets
  /\ [k |-> KeyOf(log[1].message), v |-> ScoreOf(log[1].message)]
       \in Range(last.data.entries)

\* C9: whatever the text and whatever the sends do, the handler returns
\* (with or without having caught an exception) and leaves the connection
\* open.
C9_HandlerNeverFaults ==
  [][HandlerStep =>
       /\ last'.outcome \in {"ok", "caught"}
       /\ UNCHANGED <<srvSocket, readyState>>
       /\ srvSocket'[last'.conn] = "open"]_vars

\* The handler has caught the exception of a send to a closed socket, and
\* the sender's connection is still open.
C9_Witness ==
  /\ last.conn # "none"
  /\ Registers(last.message)
  /\ last.closedTargets # {}
  /\ last.outcome = "caught"
  /\ srvSocket[last.conn] = "open"

\* The step delivers the next server text to client c.
ReceiveStep(c) ==
  /\ readyState[c] = "Open"
  /\ readyState'[c] = "Open"
  /\ outbox[c] # <<>>
  /\ outbox'[c] = Tail(outbox[c])

\* C10: on an open client socket a text that parses replaces the cached
\* players by the parsed snapshot, whole; a text that does not parse
\* leaves the cache as it was.
C10_ClientReplacesCache ==
  [][/\ \A c \in Conns :
          ReceiveStep(c) =>
            IF Head(outbox[c]).kind = "json"
            THEN cache'[c] = Head(outbox[c]).entries
            ELSE cache'[c] = cache[c]
     /\ (lost' = lost + 1 /\ ev' = "parseError") => cache' = cache]_vars

\* A client has cached the snapshot of an update, and a text that did not
\* parse has left it in place.
C10_Witness ==
  /\ ev = "parseError"
  /\ \E c \in Conns :
       /\ readyState[c] = "Open"
       /\ outbox[c] = <<>>
       /\ cache[c] # <<>>
       /\ cache[c] = JSONstringify(players).entries

\* The step is a call of setScore that put no text on the wire.
SilentPublishStep ==
  lost' = lost + 1 /\ ev' \in {"noop", "threw", "dropped"}

\* C11: setScore while the socket is not open (none yet, connecting, or
\* closed) raises no error, sends nothing and leaves the cache unchanged.
C11_PublishGuarded ==
  [][SilentPublishStep =>
       /\ ev' # "threw"
       /\ inbox' = inbox
       /\ cache' = cache]_vars

\* The moves of the client's connection state, None standing for
\* Disconnected.
SpecMoves ==
  {<<"None", "Connecting">>, <<"Connecting", "Open">>, <<"Open", "Closed">>}
CodeMoves == SpecMoves \cup {<<"Connecting", "Closed">>}

\* C12 as stated: the state only moves Disconnected -> Connecting -> Open
\* -> Closed, Closed being entered from Open only.
C12_ClosedOnlyFromOpen ==
  [][\A c \in Conns :
       readyState'[c] # readyState[c] =>
         <<readyState[c], readyState'[c]>> \in SpecMoves]_vars

\* C12, amended: the state only moves forward along Disconnected ->
\* Connecting -> Open -> Closed, Closed being entered from Open or straight
\* from Connecting; it never moves backwards and never leaves Closed.
C12_ForwardOnly ==
  [][\A c \in Conns :
       readyState'[c] # readyState[c] =>
         <<readyState[c], readyState'[c]>> \in CodeMoves]_vars

\* A socket that was closed while connecting: the server never saw it.
C12_Witness ==
  \E c \in Conns : readyState[c] = "Closed" /\ srvSocket[c] = "none"

RECURSIVE StoreAfter(_)
\* players as it is when the first i messages of log have been applied one
\* after the other, each as a whole.
StoreAfter(i) ==
  IF i = 0 THEN <<>>
  ELSE IF Registers(log[i].message)
       THEN ObjSet(StoreAfter(i - 1), KeyOf(log[i].message),
                   ScoreOf(log[i].message))
       ELSE StoreAfter(i - 1)

RECURSIVE InOrderFrom(_, _, _)
\* The texts q[j], q[j+1], ... are snapshots taken after the updates
\* log[i], log[i+1], ..., in that order (an update may have several).
InOrderFrom(q, j, i) ==
  IF j > Len(q) THEN TRUE
  ELSE IF i > Len(log) THEN FALSE
  ELSE IF /\ Registers(log[i].message)
          /\ q[j] = JSONstringify(StoreAfter(i))
       THEN InOrderFrom(q, j + 1, i)
       ELSE InOrderFrom(q, j, i + 1)

\* What client c has received and is still to receive, oldest first.
Received(c) ==
  IF cache[c] = <<>> THEN outbox[c]
  ELSE <<[kind |-> "json", entries |-> cache[c]]>> \o outbox[c]

\* C13: a message is handled as a whole before the next one: players is
\* always the result of applying the handled messages one after the other,
\* the texts one fan-out sends are all the same snapshot of players after
\* its update, and each connection gets its snapshots in the order of the
\* updates.
C13_HandledToCompletion ==
  /\ [](/\ players = StoreAfter(Len(log))
        /\ \A c \in Conns : InOrderFrom(Received(c), 1, 1))
  /\ [][HandlerStep =>
          /\ last'.data = JSONstringify(players')
          /\ \A c \in Conns :
               \E n \in 0..Len(last'.targets) :
                 outbox'[c] = outbox[c] \o [i \in 1..n |-> last'.data]]_vars

\* A client holds the snapshot of the first update while the different
\* snapshot of the second is on its way.
C13_Witness ==
  \E c \in Conns :
    /\ Len(log) = 2
    /\ cache[c] # <<>>
    /\ Len(outbox[c]) = 1
    /\ outbox[c][1].entries # cache[c]
    /\ outbox[c][1] = JSONstringify(players)

\* Updates of one identifier by both connections are in flight together.
Concurrent ==
  /\ \A c \in Conns :
       /\ srvSocket[c] = "open"
       /\ inbox[c] # <<>>
       /\ Head(inbox[c]) \in ValidMsgs
  /\ Head(inbox["c1"]).playerId = Head(inbox["c2"]).playerId

\* The step is a run of the handler that stores an update and fans out.
UpdateStep == HandlerStep /\ Registers(last'.message)

\* C14: when two connections have updates of one identifier in flight,
\* either may be handled first; the value in players is always the score of
\* the update fanned out last, and the snapshot fanned out last is the
\* content of players.
C14_LastBroadcastIsFinal ==
  /\ [](Concurrent =>
          ENABLED OnMessage("c1") /\ ENABLED OnMessage("c2"))
  /\ [][/\ UpdateStep =>
             /\ ObjGet(players', KeyOf(last'.message)) =
                  ScoreOf(last'.message)
             /\ last'.data = JSONstringify(players')
        /\ ~UpdateStep => players' = players]_vars

\* Both connections have updated one identifier with different scores, c2
\* first; c1 sent its update without having seen any snapshot, and its
\* score is the final one.
C14_Witness ==
  /\ Len(log) = 2
  /\ log[1].conn = "c2" /\ log[2].conn = "c1"
  /\ log[1].message \in ValidMsgs /\ log[2].message \in ValidMsgs
  /\ log[1].message.playerId = log[2].message.playerId
  /\ log[1].message.score # log[2].message.score
  /\ cache["c1"] = <<>> /\ Len(outbox["c1"]) = 1
  /\ ObjGet(players, log[2].message.playerId) = log[2].message.score
  /\ last.data = JSONstringify(players)

\* Reached too: the same two updates in flight together.
C14_BothInFlight ==
  /\ Concurrent
  /\ Head(inbox["c1"]).score # Head(inbox["c2"]).score

\* The latest fan-out was cut short by a send that threw.
SendFailed == Registers(last.message) /\ last.outcome = "caught"

\* Every client whose open connection is the handle of some identifier
\* holds the content of players, as far as JSON carries it (a property
\* whose value is undefined is in no snapshot).
Converged ==
  \A c \in Handles :
    readyState[c] = "Open" => cache[c] = JSONstringify(players).entries

\* C15: clients stop publishing (the run is bounded), texts are delivered
\* in order (Fairness); if no send fails, then from some point on every
\* client whose open connection is a registered handle has the content of
\* players cached.
C15_Convergence == []~SendFailed => <>[]Converged

\* Two clients, each the handle of one identifier, hold both scores.
C15_Witness ==
  /\ Len(wsConnections) = 2
  /\ \A c \in Conns :
       /\ c \in Handles
       /\ readyState[c] = "Open"
       /\ outbox[c] = <<>>
       /\ Len(cache[c]) = 2
       /\ cache[c] = JSONstringify(players).entries

\* The number of identifiers that reg maps to connection c.
IdsOf(reg, c) == Cardinality({i \in 1..Len(reg) : reg[i].v = c})

\* The step is an update whose sends all went to open sockets.
CleanUpdateStep ==
  UpdateStep /\ last'.outcome = "ok" /\ last'.closedTargets = {}

C17_SameKeysNeverShrink ==
  /\ [](ObjKeys(wsConnections) = ObjKeys(players))
  /\ [][/\ ObjKeys(wsConnections) \subseteq ObjKeys(wsConnections')
        /\ ObjKeys(players) \subseteq ObjKeys(players')]_vars

\* Both stores hold the same two identifiers after a close and a fan-out
\* that a failing send cut short.
C17_Witness ==
  /\ SendFailed
  /\ \E c \in Conns : srvSocket[c] = "closed"
  /\ Cardinality(ObjKeys(players)) = 2
  /\ ObjKeys(wsConnections) = ObjKeys(players)

====
